---- MODULE Spec2Model ----
(***************************************************************************)
(* A model of parse_olt_output (src/olt_parser_app.py): the line-oriented  *)
(* parser of the Huawei OLT "display ont info summary" report.  Lines are  *)
(* real strings; the five regular expressions of the source are operators  *)
(* that work on the characters of a line.                                   *)
(***************************************************************************)
EXTENDS Integers, Sequences, FiniteSets, TLC

VARIABLES
    olt_name,          \* argument olt_name of the call
    suite,             \* the lines the report text is made of
    lines,             \* the lines "for line in lines" has read so far
    pc,                \* "loop", "done" (returned) or "raised" (exception left the call)
    current_port,      \* local current_port
    parsing_state,     \* local parsing_state
    port_data_table1,  \* local port_data_table1 (insertion-ordered dict)
    port_data_table2,  \* local port_data_table2 (insertion-ordered dict)
    all_ont_data,      \* local all_ont_data, the list that is returned
    section_of,        \* history: for each record, the ordinal of the port
                       \* section whose flush appended it
    calls              \* the calls of parse_olt_output that run side by side,
                       \* each with its arguments, its position and its locals

vars == << olt_name, suite, lines, pc, current_port, parsing_state,
           port_data_table1, port_data_table2, all_ont_data, section_of, calls >>

\* Python's None (no port string and no state name equals it).
None == "<None>"

----------------------------------------------------------------------------
(* Characters and strings                                                  *)

Char(s, i) == SubSeq(s, i, i)

Digits == {"0", "1", "2", "3", "4", "5", "6", "7", "8", "9"}

HexLetters == {"a", "b", "c", "d", "e", "f", "A", "B", "C", "D", "E", "F"}

LowerCase == {"a", "b", "c", "d", "e", "f", "g", "h", "i", "j", "k", "l", "m",
              "n", "o", "p", "q", "r", "s", "t", "u", "v", "w", "x", "y", "z"}

UpperCase == {"A", "B", "C", "D", "E", "F", "G", "H", "I", "J", "K", "L", "M",
              "N", "O", "P", "Q", "R", "S", "T", "U", "V", "W", "X", "Y", "Z"}

\* \w of the re module, restricted to ASCII
WordChars == Digits \cup LowerCase \cup UpperCase \cup {"_"}

\* \s of the re module and the whitespace of str.strip / str.split, restricted
\* to the two characters that survive str.splitlines
Whitespace == {" ", "\t"}

AllIn(s, S) == \A i \in 1..Len(s) : Char(s, i) \in S

Min(S) == CHOOSE x \in S : \A y \in S : x <= y

Max(S) == CHOOSE x \in S : \A y \in S : y <= x

\* the elements of a finite set of integers, ascending
Ascending(S) ==
    [k \in 1..Cardinality(S) |->
        CHOOSE x \in S : Cardinality({y \in S : y < x}) = k - 1]

\* c repeated n times
RECURSIVE Rep(_, _)
Rep(c, n) ==
    IF n = 0 THEN ""
    ELSE LET h == Rep(c, n \div 2)
         IN  h \o h \o (IF n % 2 = 1 THEN c ELSE "")

\* the maximal runs of non-whitespace characters of s, as [from, to] positions
FieldStarts(s) ==
    {i \in 1..Len(s) : /\ Char(s, i) \notin Whitespace
                       /\ (i = 1 \/ Char(s, i - 1) \in Whitespace)}

FieldEnds(s) ==
    {i \in 1..Len(s) : /\ Char(s, i) \notin Whitespace
                       /\ (i = Len(s) \/ Char(s, i + 1) \in Whitespace)}

Fields(s) ==
    LET st == Ascending(FieldStarts(s))
        en == Ascending(FieldEnds(s))
    IN  [k \in 1..Len(st) |-> [from |-> st[k], to |-> en[k]]]

\* str.strip()
Strip(s) ==
    IF FieldStarts(s) = {} THEN ""
    ELSE SubSeq(s, Min(FieldStarts(s)), Max(FieldEnds(s)))

\* str.split() with no separator: the whitespace-separated words
Split(s) ==
    LET f == Fields(s)
    IN  [k \in 1..Len(f) |-> SubSeq(s, f[k].from, f[k].to)]

\* str.split(sep) for a one-character separator: empty segments are kept
SplitOn(s, sep) ==
    LET at == Ascending({i \in 1..Len(s) : Char(s, i) = sep})
        n  == Len(at)
        lo(k) == IF k = 1 THEN 1 ELSE at[k - 1] + 1
        hi(k) == IF k = n + 1 THEN Len(s) ELSE at[k] - 1
    IN  [k \in 1..(n + 1) |-> SubSeq(s, lo(k), hi(k))]

\* str.upper(), ASCII
UpperOf(c) ==
    IF c \in LowerCase
    THEN LET lo == << "a", "b", "c", "d", "e", "f", "g", "h", "i", "j", "k", "l", "m",
                      "n", "o", "p", "q", "r", "s", "t", "u", "v", "w", "x", "y", "z" >>
             up == << "A", "B", "C", "D", "E", "F", "G", "H", "I", "J", "K", "L", "M",
                      "N", "O", "P", "Q", "R", "S", "T", "U", "V", "W", "X", "Y", "Z" >>
         IN  up[CHOOSE k \in 1..26 : lo[k] = c]
    ELSE c

RECURSIVE Upper(_)
Upper(s) == IF s = "" THEN "" ELSE UpperOf(Char(s, 1)) \o Upper(SubSeq(s, 2, Len(s)))

\* str.endswith / str.startswith
EndsWith(s, t) == Len(t) <= Len(s) /\ SubSeq(s, Len(s) - Len(t) + 1, Len(s)) = t

StartsWith(s, t) == Len(t) <= Len(s) /\ SubSeq(s, 1, Len(t)) = t

\* the literal t stands in s at position i
LitAt(s, i, t) == i >= 1 /\ i + Len(t) - 1 <= Len(s) /\ SubSeq(s, i, i + Len(t) - 1) = t

\* the position after the longest run of characters of S that starts at i
\* (i itself when the run is empty)
RunEnd(s, i, S) ==
    LET ends == {j \in i..Len(s) : \A k \in i..j : Char(s, k) \in S}
    IN  IF ends = {} THEN i ELSE Max(ends) + 1

\* sys.int_info.default_max_str_digits: int(str) raises ValueError for a
\* string of more digits
IntMaxStrDigits == 4300

DigitValue(c) == CHOOSE v \in 0..9 : << "0", "1", "2", "3", "4", "5", "6", "7", "8", "9" >>[v + 1] = c

RECURSIVE DecimalValue(_)
DecimalValue(s) ==
    IF s = "" THEN 0
    ELSE 10 * DecimalValue(SubSeq(s, 1, Len(s) - 1)) + DigitValue(Char(s, Len(s)))

\* int(s) for a string of digits: [raised |-> TRUE] stands for the ValueError
IntOf(s) ==
    IF Len(s) > IntMaxStrDigits THEN [raised |-> TRUE, value |-> 0]
    ELSE [raised |-> FALSE, value |-> DecimalValue(s)]

----------------------------------------------------------------------------
(* The regular expressions                                                 *)

NoMatch == [ok |-> FALSE]

\* PORT_HEADER_RE at position i of s: the captured port, or None
PortHeaderAt(s, i) ==
    IF ~LitAt(s, i, "In port ") THEN None
    ELSE
    LET total  == ", the total of ONTs are: "
        online == ", online: "
        b  == i + Len("In port ")
        b2 == RunEnd(s, b, Digits)
        c  == b2 + 1
        c2 == RunEnd(s, c, Digits)
        d  == c2 + 1
        d2 == RunEnd(s, d, Digits)
        e  == d2 + Len(total)
        e2 == RunEnd(s, e, Digits)
        f  == e2 + Len(online)
        f2 == RunEnd(s, f, Digits)
    IN  IF /\ b2 > b /\ LitAt(s, b2, "/")
           /\ c2 > c /\ LitAt(s, c2, "/")
           /\ d2 > d /\ LitAt(s, d2, total)
           /\ e2 > e /\ LitAt(s, e2, online)
           /\ f2 > f
        THEN SubSeq(s, b, d2 - 1)
        ELSE None

\* PORT_HEADER_RE.search(s): group(1) of the leftmost match, or None
PORT_HEADER_RE(s) ==
    LET at == {i \in 1..Len(s) : PortHeaderAt(s, i) # None}
    IN  IF at = {} THEN None ELSE PortHeaderAt(s, Min(at))

\* words[1] \s+ words[2] \s+ ... stands in s at position i
RECURSIVE WordsAt(_, _, _)
WordsAt(s, i, words) ==
    /\ LitAt(s, i, Head(words))
    /\ \/ Len(words) = 1
       \/ LET a == i + Len(Head(words))
              b == RunEnd(s, a, Whitespace)
          IN  b > a /\ WordsAt(s, b, Tail(words))

\* TABLE1_HEADER_RE.search(s)
TABLE1_HEADER_RE(s) ==
    \E i \in 1..Len(s) : WordsAt(s, i, << "ONT", "Run", "Last", "Last", "Last" >>)

\* TABLE2_HEADER_RE.search(s)
TABLE2_HEADER_RE(s) ==
    \E i \in 1..Len(s) :
        WordsAt(s, i, << "ONT", "SN", "Type", "Distance", "Rx/Tx power", "Description" >>)

\* ([\d-]{10}\s[\d:]{8}|-) at field k of s: the number of fields it takes
\* (0: no match)
StampWidth(s, f, k) ==
    LET w(j) == SubSeq(s, f[j].from, f[j].to)
    IN  IF k > Len(f) THEN 0
        ELSE IF /\ k + 1 <= Len(f)
                /\ Len(w(k)) = 10 /\ AllIn(w(k), Digits \cup {"-"})
                /\ f[k + 1].from - f[k].to = 2
                /\ Len(w(k + 1)) = 8 /\ AllIn(w(k + 1), Digits \cup {":"})
             THEN 2
        ELSE IF w(k) = "-" THEN 1
        ELSE 0

\* TABLE1_DATA_RE.match(s): the five groups, or NoMatch
TABLE1_DATA_RE(s) ==
    LET f  == Fields(s)
        w(j) == SubSeq(s, f[j].from, f[j].to)
        u  == StampWidth(s, f, 3)
        d  == StampWidth(s, f, 3 + u)
        c  == 3 + u + d
    IN  IF /\ Len(f) >= 5
           /\ AllIn(w(1), Digits)
           /\ w(2) \in {"online", "offline"}
           /\ u > 0 /\ d > 0
           /\ Len(f) = c
           /\ AllIn(w(c), WordChars \cup {"/", "-"})
        THEN [ok |-> TRUE,
              g1 |-> w(1),
              g2 |-> w(2),
              g3 |-> SubSeq(s, f[3].from, f[3 + u - 1].to),
              g4 |-> SubSeq(s, f[3 + u].from, f[c - 1].to),
              g5 |-> w(c)]
        ELSE NoMatch

\* (\S+/-?\S+|-/-) on one field: a slash with a character before and after it
PowerField(t) == \E p \in 2..(Len(t) - 1) : Char(t, p) = "/"

\* TABLE2_DATA_RE.match(s): the six groups, or NoMatch.  \s+ after the power
\* field needs a whitespace character, so a sixth field must follow.
TABLE2_DATA_RE(s) ==
    LET f == Fields(s)
        w(j) == SubSeq(s, f[j].from, f[j].to)
    IN  IF /\ Len(f) >= 5
           /\ AllIn(w(1), Digits)
           /\ \/ w(2) = "-"
              \/ Len(w(2)) = 16 /\ AllIn(w(2), Digits \cup HexLetters)
           /\ w(4) = "-" \/ AllIn(w(4), Digits)
           /\ PowerField(w(5))
           /\ \/ Len(f) >= 6
              \/ f[5].to < Len(s)
        THEN [ok |-> TRUE,
              g1 |-> w(1),
              g2 |-> w(2),
              g3 |-> w(3),
              g4 |-> w(4),
              g5 |-> w(5),
              g6 |-> IF Len(f) >= 6 THEN SubSeq(s, f[6].from, Len(s)) ELSE ""]
        ELSE NoMatch

----------------------------------------------------------------------------
(* The reports the model reads                                              *)

PortLine0 == "In port 0/1/0, the total of ONTs are: 2, online: 1"

PortLine1 == "  In port 0/1/1, the total of ONTs are: 0, online: 0"

Table1Header == "  ONT  Run     Last                 Last                 Last"

Table2Header == "  ONT  SN                Type   Distance  Rx/Tx power  Description"

Separator == "  -----------------------------------------------------------------"

BlankLine == "  "

Row1Up == "  1    online  2023-01-01 10:00:00  -                    -"

Row1Down == "  1    offline -                    2023-02-02 11:11:11  LOS"

Row01 == "  01   offline 2023-03-03 12:00:00  2023-03-04 13:00:00  dying-gasp"

Row2 == "  2    online  -                    -                    -"

RowBadState == "  1    up      -                    -                    -"

RowLongId == "  " \o Rep("1", IntMaxStrDigits + 1) \o "  online  -  -  -"

Sn1A == "  1    ABCDEF0123456789  1112   120       -25.3/2.1    Customer A"

Sn2NoDesc == "  2    ABCDEF0123456789  1108   35        -19.10/2.30"

Sn1Other == "  1    ABCDEF0123456789  1108   35        -19.10/2.30  Customer B"

Sn3Plain == "  3    -                 5806G  -         -/-          Customer C"

Sn4Like == "  4    0123456789abcdef  11120  7         -20.0/1.0    type 1112"

\* a line of the Table-2 grammar whose description holds the Table-1 header
SnAsHeader == "  1  ABCDEF0123456789  1112  120  -25.3/2.1  ONT Run Last Last Last"

\* a line of the Table-2 grammar whose description holds a port header
SnAsPort == "  1  ABCDEF0123456789  1112  120  -25.3/2.1  In port 0/3/0, the total of ONTs are: 1, online: 1"

\* a line that starts with dashes and holds a port header and a table header
DashPort == "--- In port 0/2/0, the total of ONTs are: 1, online: 1 --- ONT Run Last Last Last"

\* the sets of lines a report is made of
Suites ==
    { {PortLine0, Table1Header, Row1Up, Row2, Row1Down},
      {PortLine0, Table1Header, Row1Up, Row01},
      {PortLine0, Table1Header, Row1Up, Table2Header, Sn1A},
      {PortLine0, Table1Header, Row2, Table2Header, Sn1A},
      {PortLine0, Table1Header, Row2, Table2Header, Sn2NoDesc},
      {PortLine0, PortLine1, Table1Header, Row1Up},
      {PortLine0, Table1Header, Row2, Separator, BlankLine},
      {PortLine0, Table1Header, RowLongId, RowBadState} }

\* reports of table blocks in every order, and of several sections
TableSuites ==
    { {PortLine0, Table2Header, Sn1A, Sn1Other},
      {PortLine0, Table2Header, Sn3Plain, Sn4Like},
      {PortLine0, PortLine1, Table1Header, Row1Up},
      {PortLine0, Table1Header, Row1Up, Row2},
      {PortLine0, Table2Header, Sn1A, Table1Header, Row1Up},
      {PortLine0, Table1Header, Row2, Separator, BlankLine} }

\* reports of lines that are skipped, and of lines that more than one test
\* of the loop body fits
LineSuites ==
    { {PortLine0, Table1Header, Row2, Separator, BlankLine},
      {PortLine0, Table1Header, RowBadState, Row1Up},
      {PortLine0, Table2Header, Sn2NoDesc, Sn1A},
      {PortLine0, Table2Header, SnAsHeader, Row1Up},
      {PortLine0, Table2Header, Sn1A, SnAsPort},
      {PortLine0, Table1Header, Row1Up, DashPort} }

\* short reports for the calls that differ in olt_name
PopSuites ==
    { {PortLine0, Table1Header, Row1Up},
      {PortLine0, Table2Header, Sn1A},
      {PortLine0, Separator, BlankLine} }

OltNames == {"HWGPON2U-01-PNHHQ"}

\* names of one to five parts, with last parts around the tests of pop_name
PopNames ==
    { "ab", "", "a-b", "X-PNHHQ", "--", "---",
      "HWGPON2U-01-PNHHQ", "SITE-A-SHVNOC1",
      "A-B-noc1", "A-B-C-noc1", "A-B-C-nOc1", "A-B-NOC1",
      "A-B-CD", "A-B-C-DE", "A-B-C-xoc1", "A-B-C-D-EF",
      "A-B-", "A-B-C-", "A-B-NOC1X", "A-B-C-DEFGH" }

\* every line a report can hold
ReportLines == UNION (Suites \cup TableSuites \cup LineSuites \cup PopSuites)

\* what the loop body computes from the raw line l alone: the stripped line,
\* the three searches, the startswith test and the two matches
Scan(l) ==
    LET line == Strip(l)
    IN  [line          |-> line,
         port_match    |-> PORT_HEADER_RE(line),
         table1_header |-> TABLE1_HEADER_RE(line),
         table2_header |-> TABLE2_HEADER_RE(line),
         separator     |-> StartsWith(line, "---"),
         table1_data   |-> TABLE1_DATA_RE(line),
         table2_data   |-> TABLE2_DATA_RE(line)]

\* Scan, tabulated once for the lines of the reports
Scanned == [l \in ReportLines |-> Scan(l)] @@ << >>

----------------------------------------------------------------------------
(* The locals of parse_olt_output                                           *)

NA == "N/A"

\* PopName with a fault: the fallback for four parts is tested first
PopName_FallbackFirst(name) ==
    LET parts == SplitOn(name, "-")
        last  == parts[Len(parts)]
    IN  IF Len(parts) >= 3
        THEN IF Len(parts) >= 4 /\ Len(last) < 5 THEN parts[Len(parts) - 1] \o "-" \o last
             ELSE IF EndsWith(Upper(last), "NOC1") THEN last
             ELSE IF Len(last) >= 5 THEN last
             ELSE "Unknown PoP"
        ELSE "Unknown PoP"

\* PopName with a fault: two parts are enough
PopName_TwoParts(name) ==
    LET parts == SplitOn(name, "-")
        last  == parts[Len(parts)]
    IN  IF Len(parts) >= 2
        THEN IF EndsWith(Upper(last), "NOC1") THEN last
             ELSE IF Len(last) >= 5 THEN last
             ELSE IF Len(parts) >= 4 THEN parts[Len(parts) - 1] \o "-" \o last
             ELSE "Unknown PoP"
        ELSE "Unknown PoP"

\* pop_name, derived from olt_name before the loop
PopName(name) ==
    LET parts == SplitOn(name, "-")
        last  == parts[Len(parts)]
    IN  IF Len(parts) >= 3
        THEN IF EndsWith(Upper(last), "NOC1") THEN last
             ELSE IF Len(last) >= 5 THEN last
             ELSE IF Len(parts) >= 4 THEN parts[Len(parts) - 1] \o "-" \o last
             ELSE "Unknown PoP"
        ELSE "Unknown PoP"

\* A dict is the sequence of its [key, val] items in insertion order.
DictHas(d, k) == \E i \in 1..Len(d) : d[i].key = k

DictGet(d, k) == d[CHOOSE i \in 1..Len(d) : d[i].key = k].val

\* DictSet with a fault: a known key is deleted and set again, which moves it
\* to the end
DictSet_MoveToEnd(d, k, v) ==
    SelectSeq(d, LAMBDA e : e.key # k) \o << [key |-> k, val |-> v] >>

\* d[k] = v: a new key goes to the end, a known key keeps its place
DictSet(d, k, v) ==
    IF DictHas(d, k)
    THEN [i \in 1..Len(d) |-> IF d[i].key = k THEN [key |-> k, val |-> v] ELSE d[i]]
    ELSE Append(d, [key |-> k, val |-> v])

\* the locals as they are when the loop starts
InitialLocals ==
    [current_port     |-> None,
     parsing_state    |-> None,
     port_data_table1 |-> << >>,
     port_data_table2 |-> << >>,
     all_ont_data     |-> << >>,
     raised           |-> FALSE]

\* "a, b = v.split() if v != '-' else ('-', '-')": unpacking raises unless
\* there are exactly two parts
SplitDateTime(v) ==
    LET parts == IF v # "-" THEN Split(v) ELSE << "-", "-" >>
    IN  IF Len(parts) = 2
        THEN [raised |-> FALSE, date |-> parts[1], time |-> parts[2]]
        ELSE [raised |-> TRUE, date |-> "", time |-> ""]

\* T2Get with a fault: the default is the empty string
T2Get_EmptyDefault(table2, ont_id_str, field) ==
    IF DictHas(table2, ont_id_str) THEN DictGet(table2, ont_id_str)[field] ELSE ""

\* t2_data.get(field, 'N/A') with t2_data = port_data_table2.get(ont_id_str, {})
T2Get(table2, ont_id_str, field) ==
    IF DictHas(table2, ont_id_str) THEN DictGet(table2, ont_id_str)[field] ELSE NA

\* "record = { ... }": the joined record of one item of port_data_table1
OntRecord(name, port, ont_id, t1_data, up, down, table2, ont_id_str) ==
    ("OLT Name" :> name) @@
    ("PON Port" :> port) @@
    ("ONT ID" :> ont_id) @@
    ("Run State" :> t1_data["Run State"]) @@
    ("Last UpDate" :> up.date) @@
    ("Last UpTime" :> up.time) @@
    ("Last DownDate" :> down.date) @@
    ("Last DownTime" :> down.time) @@
    ("Last DownCause" :> t1_data["DownCause"]) @@
    ("SN" :> T2Get(table2, ont_id_str, "SN")) @@
    ("Type" :> T2Get(table2, ont_id_str, "Type")) @@
    ("Distance (m)" :> T2Get(table2, ont_id_str, "Distance")) @@
    ("Rx/Tx (dBm) power" :> T2Get(table2, ont_id_str, "Power")) @@
    ("Description" :> T2Get(table2, ont_id_str, "Description")) @@
    ("PoP" :> PopName(name))

\* PortRecord with a fault: the down timestamp is split from UpDateTime
PortRecord_DownFromUp(L, i, name) ==
    LET ont_id_str == L.port_data_table1[i].key
        t1_data    == L.port_data_table1[i].val
        ont_id     == IntOf(ont_id_str)
        up         == SplitDateTime(t1_data["UpDateTime"])
        down       == SplitDateTime(t1_data["UpDateTime"])
    IN  [raised |-> ont_id.raised \/ up.raised \/ down.raised,
         record |-> OntRecord(name, L.current_port, ont_id.value, t1_data, up, down,
                              L.port_data_table2, ont_id_str)]

\* the body of the flush loop at a port header, for item i of
\* port_data_table1: int(), the two splits, the record
PortRecord(L, i, name) ==
    LET ont_id_str == L.port_data_table1[i].key
        t1_data    == L.port_data_table1[i].val
        ont_id     == IntOf(ont_id_str)
        up         == SplitDateTime(t1_data["UpDateTime"])
        down       == SplitDateTime(t1_data["DownDateTime"])
    IN  [raised |-> ont_id.raised \/ up.raised \/ down.raised,
         record |-> OntRecord(name, L.current_port, ont_id.value, t1_data, up, down,
                              L.port_data_table2, ont_id_str)]

\* "for ont_id_str, t1_data in port_data_table1.items(): ... append(record)":
\* the records of the items before the first one that raises are appended
CombinePort(L, name) ==
    LET n    == Len(L.port_data_table1)
        bad  == {i \in 1..n : PortRecord(L, i, name).raised}
        upto == IF bad = {} THEN n ELSE Min(bad) - 1
    IN  [L EXCEPT !.all_ont_data = @ \o [i \in 1..upto |-> PortRecord(L, i, name).record],
                  !.raised = (bad # {})]

\* LastPortRecord with a fault: one test for both timestamps, so that an
\* absent timestamp blanks the other one too
LastPortRecord_Coupled(L, i, name) ==
    LET ont_id_str == L.port_data_table1[i].key
        t1_data    == L.port_data_table1[i].val
        ont_id     == IntOf(ont_id_str)
        both       == t1_data["UpDateTime"] # "-" /\ t1_data["DownDateTime"] # "-"
        up         == SplitDateTime(IF both THEN t1_data["UpDateTime"] ELSE "-")
        down       == SplitDateTime(IF both THEN t1_data["DownDateTime"] ELSE "-")
    IN  [raised |-> ont_id.raised \/ up.raised \/ down.raised,
         record |-> OntRecord(name, L.current_port, ont_id.value, t1_data, up, down,
                              L.port_data_table2, ont_id_str)]

\* the body of the same loop after the last line
LastPortRecord(L, i, name) ==
    LET ont_id_str == L.port_data_table1[i].key
        t1_data    == L.port_data_table1[i].val
        ont_id     == IntOf(ont_id_str)
        up         == SplitDateTime(t1_data["UpDateTime"])
        down       == SplitDateTime(t1_data["DownDateTime"])
    IN  [raised |-> ont_id.raised \/ up.raised \/ down.raised,
         record |-> OntRecord(name, L.current_port, ont_id.value, t1_data, up, down,
                              L.port_data_table2, ont_id_str)]

\* CombineLastPort with a fault: the ids that only port_data_table2 has get a
\* record too
CombineLastPort_OuterJoin(L, name) ==
    LET n     == Len(L.port_data_table1)
        bad   == {i \in 1..n : LastPortRecord(L, i, name).raised}
        upto  == IF bad = {} THEN n ELSE Min(bad) - 1
        only2 == SelectSeq(L.port_data_table2,
                           LAMBDA e : ~DictHas(L.port_data_table1, e.key))
        blank == [date |-> NA, time |-> NA]
        none  == ("Run State" :> NA) @@ ("DownCause" :> NA)
    IN  IF L.current_port # None
        THEN [L EXCEPT !.all_ont_data =
                  @ \o [i \in 1..upto |-> LastPortRecord(L, i, name).record]
                    \o [i \in 1..Len(only2) |->
                           OntRecord(name, L.current_port, IntOf(only2[i].key).value,
                                     none, blank, blank, L.port_data_table2,
                                     only2[i].key)],
                       !.raised = (bad # {})]
        ELSE L

\* "if current_port is not None: for ... in port_data_table1.items(): ..."
CombineLastPort(L, name) ==
    LET n    == Len(L.port_data_table1)
        bad  == {i \in 1..n : LastPortRecord(L, i, name).raised}
        upto == IF bad = {} THEN n ELSE Min(bad) - 1
    IN  IF L.current_port # None
        THEN [L EXCEPT !.all_ont_data = @ \o [i \in 1..upto |-> LastPortRecord(L, i, name).record],
                       !.raised = (bad # {})]
        ELSE L

\* OnPortHeader with a fault: "port_data_table2 = {}" is missing
OnPortHeader_KeepsTable2(L, l, name) ==
    LET F == IF L.current_port # None THEN CombinePort(L, name) ELSE L
    IN  IF F.raised THEN F
        ELSE [F EXCEPT !.current_port = Scanned[l].port_match,
                       !.parsing_state = None,
                       !.port_data_table1 = << >>]

\* OnPortHeader with a fault: "parsing_state = None" is missing
OnPortHeader_KeepsTable(L, l, name) ==
    LET F == IF L.current_port # None THEN CombinePort(L, name) ELSE L
    IN  IF F.raised THEN F
        ELSE [F EXCEPT !.current_port = Scanned[l].port_match,
                       !.port_data_table1 = << >>,
                       !.port_data_table2 = << >>]

\* "if port_match:": flush the open section, then start the new one
OnPortHeader(L, l, name) ==
    LET F == IF L.current_port # None THEN CombinePort(L, name) ELSE L
    IN  IF F.raised THEN F
        ELSE [F EXCEPT !.current_port = Scanned[l].port_match,
                       !.parsing_state = None,
                       !.port_data_table1 = << >>,
                       !.port_data_table2 = << >>]

\* OnTable1Header with a fault: the Table-1 header starts the accumulators
\* afresh
OnTable1Header_StartsAfresh(L) ==
    [L EXCEPT !.parsing_state = "table1",
              !.port_data_table1 = << >>,
              !.port_data_table2 = << >>]

OnTable1Header(L) == [L EXCEPT !.parsing_state = "table1"]

OnTable2Header(L) == [L EXCEPT !.parsing_state = "table2"]

\* OnTable1Data with a fault: a line that does not match ends the table
OnTable1Data_EndsTable(L, l) ==
    LET data_match == Scanned[l].table1_data
    IN  IF data_match.ok
        THEN [L EXCEPT !.port_data_table1 =
                 DictSet(@, data_match.g1,
                         ("Run State" :> data_match.g2) @@
                         ("UpDateTime" :> data_match.g3) @@
                         ("DownDateTime" :> data_match.g4) @@
                         ("DownCause" :> data_match.g5))]
        ELSE [L EXCEPT !.parsing_state = None]

\* "if parsing_state == 'table1':"
OnTable1Data(L, l) ==
    LET data_match == Scanned[l].table1_data
    IN  IF data_match.ok
        THEN [L EXCEPT !.port_data_table1 =
                 DictSet(@, data_match.g1,
                         ("Run State" :> data_match.g2) @@
                         ("UpDateTime" :> data_match.g3) @@
                         ("DownDateTime" :> data_match.g4) @@
                         ("DownCause" :> data_match.g5))]
        ELSE L

\* MapType with a fault: the test is for the start of the token
MapType_ByPrefix(ont_type) ==
    IF StartsWith(ont_type, "1112") THEN "GP1702-4G"
    ELSE IF StartsWith(ont_type, "1108") THEN "GP1702-4G-M"
    ELSE ont_type

\* the mapping of the numerical types
MapType(ont_type) ==
    IF ont_type = "1112" THEN "GP1702-4G"
    ELSE IF ont_type = "1108" THEN "GP1702-4G-M"
    ELSE ont_type

\* "elif parsing_state == 'table2':"
OnTable2Data(L, l) ==
    LET data_match == Scanned[l].table2_data
    IN  IF data_match.ok
        THEN [L EXCEPT !.port_data_table2 =
                 DictSet(@, data_match.g1,
                         ("SN" :> data_match.g2) @@
                         ("Type" :> MapType(data_match.g3)) @@
                         ("Distance" :> data_match.g4) @@
                         ("Power" :> data_match.g5) @@
                         ("Description" :> Strip(data_match.g6)))]
        ELSE L

\* Branch with a fault: the test "if current_port is None" is missing
Branch_NoPortGuard(L, l) ==
    IF Scanned[l].line = "" THEN "empty"
    ELSE IF Scanned[l].port_match # None THEN "port_header"
    ELSE IF Scanned[l].table1_header THEN "table1_header"
    ELSE IF Scanned[l].table2_header THEN "table2_header"
    ELSE IF Scanned[l].separator THEN "separator"
    ELSE IF L.parsing_state = "table1" THEN "table1_data"
    ELSE IF L.parsing_state = "table2" THEN "table2_data"
    ELSE "no_table"

\* Branch with a fault: a line that matches the grammar of the selected table
\* is taken as data before the table headers are tested
Branch_DataFirst(L, l) ==
    IF Scanned[l].line = "" THEN "empty"
    ELSE IF Scanned[l].port_match # None THEN "port_header"
    ELSE IF L.current_port = None THEN "no_port"
    ELSE IF L.parsing_state = "table1" /\ Scanned[l].table1_data.ok THEN "table1_data"
    ELSE IF L.parsing_state = "table2" /\ Scanned[l].table2_data.ok THEN "table2_data"
    ELSE IF Scanned[l].table1_header THEN "table1_header"
    ELSE IF Scanned[l].table2_header THEN "table2_header"
    ELSE IF Scanned[l].separator THEN "separator"
    ELSE IF L.parsing_state = "table1" THEN "table1_data"
    ELSE IF L.parsing_state = "table2" THEN "table2_data"
    ELSE "no_table"

\* which branch of the loop body takes the line l
Branch(L, l) ==
    IF Scanned[l].line = "" THEN "empty"
    ELSE IF Scanned[l].port_match # None THEN "port_header"
    ELSE IF L.current_port = None THEN "no_port"
    ELSE IF Scanned[l].table1_header THEN "table1_header"
    ELSE IF Scanned[l].table2_header THEN "table2_header"
    ELSE IF Scanned[l].separator THEN "separator"
    ELSE IF L.parsing_state = "table1" THEN "table1_data"
    ELSE IF L.parsing_state = "table2" THEN "table2_data"
    ELSE "no_table"

\* one pass of the loop body: the locals after the line l
Step(L, l, name) ==
    LET b == Branch(L, l)
    IN  IF b = "port_header" THEN OnPortHeader(L, l, name)
        ELSE IF b = "table1_header" THEN OnTable1Header(L)
        ELSE IF b = "table2_header" THEN OnTable2Header(L)
        ELSE IF b = "table1_data" THEN OnTable1Data(L, l)
        ELSE IF b = "table2_data" THEN OnTable2Data(L, l)
        ELSE L

\* "for line in lines:" from the locals L; an exception ends the loop
RECURSIVE Loop(_, _, _)
Loop(L, ls, name) ==
    IF ls = << >> \/ L.raised THEN L
    ELSE Loop(Step(L, Head(ls), name), Tail(ls), name)

\* the whole call on the lines ls: the locals at the return (or at the raise)
ParseOltOutput(ls, name) ==
    LET L == Loop(InitialLocals, ls, name)
    IN  IF L.raised THEN L ELSE CombineLastPort(L, name)

----------------------------------------------------------------------------
(* The state machine                                                        *)

\* the most lines a report has
MaxLines == 6

Locals ==
    [current_port     |-> current_port,
     parsing_state    |-> parsing_state,
     port_data_table1 |-> port_data_table1,
     port_data_table2 |-> port_data_table2,
     all_ont_data     |-> all_ont_data,
     raised           |-> pc = "raised"]

\* the number of port-header lines among the first n lines read
PortHeadersIn(ls, n) ==
    Cardinality({k \in 1..n : Scanned[ls[k]].port_match # None})

\* the locals become L; a raised exception leaves the call, and the records
\* appended by this step belong to the section that was open
Becomes(L, next_pc) ==
    /\ current_port' = L.current_port
    /\ parsing_state' = L.parsing_state
    /\ port_data_table1' = L.port_data_table1
    /\ port_data_table2' = L.port_data_table2
    /\ all_ont_data' = L.all_ont_data
    /\ section_of' = section_of \o
           [i \in 1..(Len(L.all_ont_data) - Len(all_ont_data)) |->
               PortHeadersIn(lines, Len(lines))]
    /\ pc' = IF L.raised THEN "raised" ELSE next_pc

\* the call starts on a report made of the lines of one of the suites S
Starts(names, S) ==
    /\ olt_name \in names
    /\ suite \in S
    /\ lines = << >>
    /\ pc = "loop"
    /\ current_port = None
    /\ parsing_state = None
    /\ port_data_table1 = << >>
    /\ port_data_table2 = << >>
    /\ all_ont_data = << >>
    /\ section_of = << >>
    /\ calls = << >>

Init == Starts(OltNames, Suites)

\* the loop reads the next line l and its stripped form takes branch b
Reads(l, b) ==
    /\ pc = "loop"
    /\ Len(lines) < MaxLines
    /\ l \in suite
    /\ Branch(Locals, l) = b
    /\ lines' = Append(lines, l)
    /\ UNCHANGED << olt_name, suite, calls >>

EmptyLine(l) ==
    /\ Reads(l, "empty")
    /\ Becomes(Locals, "loop")

PortHeaderLine(l) ==
    /\ Reads(l, "port_header")
    /\ Becomes(OnPortHeader(Locals, l, olt_name), "loop")

LineBeforePort(l) ==
    /\ Reads(l, "no_port")
    /\ Becomes(Locals, "loop")

Table1HeaderLine(l) ==
    /\ Reads(l, "table1_header")
    /\ Becomes(OnTable1Header(Locals), "loop")

Table2HeaderLine(l) ==
    /\ Reads(l, "table2_header")
    /\ Becomes(OnTable2Header(Locals), "loop")

SeparatorLine(l) ==
    /\ Reads(l, "separator")
    /\ Becomes(Locals, "loop")

Table1DataLine(l) ==
    /\ Reads(l, "table1_data")
    /\ Becomes(OnTable1Data(Locals, l), "loop")

Table2DataLine(l) ==
    /\ Reads(l, "table2_data")
    /\ Becomes(OnTable2Data(Locals, l), "loop")

LineOutsideTable(l) ==
    /\ Reads(l, "no_table")
    /\ Becomes(Locals, "loop")

\* the loop is over: flush the last port and return
EndOfInput ==
    /\ pc = "loop"
    /\ Becomes(CombineLastPort(Locals, olt_name), "done")
    /\ UNCHANGED << olt_name, suite, lines, calls >>

Next ==
    \/ \E l \in suite : EmptyLine(l)
    \/ \E l \in suite : PortHeaderLine(l)
    \/ \E l \in suite : LineBeforePort(l)
    \/ \E l \in suite : Table1HeaderLine(l)
    \/ \E l \in suite : Table2HeaderLine(l)
    \/ \E l \in suite : SeparatorLine(l)
    \/ \E l \in suite : Table1DataLine(l)
    \/ \E l \in suite : Table2DataLine(l)
    \/ \E l \in suite : LineOutsideTable(l)
    \/ EndOfInput

Spec == Init /\ [][Next]_vars

\* the same call on the reports of TableSuites and of LineSuites
InitTables == Starts(OltNames, TableSuites)

SpecTables == InitTables /\ [][Next]_vars

InitLines == Starts(OltNames, LineSuites)

\* Calls that run side by side.  Each call has its own arguments and its own
\* locals ("all_ont_data = []" ... "port_data_table2 = {}" run once per call);
\* a step is one pass of the loop body of one of the calls, or its return.
\* A call is over when its pc is "done": it raised if its locals say so, and
\* returned all_ont_data otherwise.
Callers == {1, 2}

\* the reports the calls are given, as the lines of text_content
CallTexts ==
    { << PortLine0, Table1Header, Row1Up >>,
      << PortLine1, Table1Header, Row2, PortLine0 >>,
      << PortLine0, Table2Header, Sn1A, Table1Header, Row1Up >>,
      << PortLine0, Table1Header, RowLongId >> }

CallNames == {"HWGPON2U-01-PNHHQ", "SITE-A-SHVNOC1"}

\* CallLocals with a fault: port_data_table1 is one dict for all the calls
CallLocals_OneTable1(cs, c) ==
    [cs[c].locals EXCEPT !.port_data_table1 = cs[1].locals.port_data_table1]

\* the locals the call c works on
CallLocals(cs, c) == cs[c].locals

InitCalls ==
    /\ olt_name \in OltNames
    /\ suite = {}
    /\ lines = << >>
    /\ pc = "loop"
    /\ current_port = None
    /\ parsing_state = None
    /\ port_data_table1 = << >>
    /\ port_data_table2 = << >>
    /\ all_ont_data = << >>
    /\ section_of = << >>
    /\ \E texts \in [Callers -> CallTexts], names \in [Callers -> CallNames] :
           calls = [of    |-> [c \in Callers |->
                                  [olt_name |-> names[c],
                                   text     |-> texts[c],
                                   read     |-> 0,
                                   pc       |-> "loop",
                                   locals   |-> InitialLocals]],
                    order |-> << >>]

\* the call c passes the loop body once, on its next line
CallReads(c) ==
    LET me == calls.of[c]
        L  == Step(CallLocals(calls.of, c), me.text[me.read + 1], me.olt_name)
    IN  /\ me.pc = "loop"
        /\ ~me.locals.raised
        /\ me.read < Len(me.text)
        /\ calls' = [of    |-> [calls.of EXCEPT ![c].read = @ + 1, ![c].locals = L],
                     order |-> Append(calls.order, c)]
        /\ UNCHANGED << olt_name, suite, lines, pc, current_port, parsing_state,
                        port_data_table1, port_data_table2, all_ont_data, section_of >>

\* the loop of the call c is over: it flushes its last port and returns
CallReturns(c) ==
    LET me == calls.of[c]
        L  == CombineLastPort(CallLocals(calls.of, c), me.olt_name)
    IN  /\ me.pc = "loop"
        /\ me.read = Len(me.text) \/ me.locals.raised
        /\ calls' = [calls EXCEPT !.of[c].locals = IF me.locals.raised THEN @ ELSE L,
                                  !.of[c].pc = "done"]
        /\ UNCHANGED << olt_name, suite, lines, pc, current_port, parsing_state,
                        port_data_table1, port_data_table2, all_ont_data, section_of >>

NextCalls ==
    \/ \E c \in Callers : CallReads(c)
    \/ \E c \in Callers : CallReturns(c)

SpecCalls == InitCalls /\ [][NextCalls]_vars

\* the call on short reports, under every name of PopNames
InitPop == Starts(PopNames, PopSuites)

SpecPop == InitPop /\ [][Next]_vars

SpecLines == InitLines /\ [][Next]_vars

----------------------------------------------------------------------------
(* The report as read so far, described from its lines alone                *)

\* the whitespace-separated words of each line
Words == [l \in ReportLines |-> Split(Strip(l))] @@ << >>

IsPortHeader(k) == Scanned[lines[k]].port_match # None

\* the ordinal of the port section line k lies in (0: before the first header)
SectionAt(k) == PortHeadersIn(lines, k)

NumSections == PortHeadersIn(lines, Len(lines))

\* the header line of section s
HeaderOf(s) == CHOOSE k \in 1..Len(lines) : IsPortHeader(k) /\ SectionAt(k) = s

\* section s is closed: another header followed it, or the input ended
Closed(s) == s >= 1 /\ (s < NumSections \/ (s = NumSections /\ pc = "done"))

\* line k is not empty, not a port header, and lies in a section
InSection(k) ==
    /\ Scanned[lines[k]].line # ""
    /\ ~IsPortHeader(k)
    /\ \E j \in 1..k : IsPortHeader(j)

IsTableHeader(k) ==
    /\ Scanned[lines[k]].table1_header \/ Scanned[lines[k]].table2_header
    /\ InSection(k)

\* the table whose rows line k is read as: that of the last table header
\* since the header of the section
TableAt(k) ==
    LET header == Max({j \in 1..k : IsPortHeader(j)})
        hs == {j \in header..(k - 1) : IsTableHeader(j)}
    IN  IF hs = {} THEN None
        ELSE IF Scanned[lines[Max(hs)]].table1_header THEN "table1"
        ELSE "table2"

IsDataLine(k) ==
    /\ InSection(k)
    /\ ~IsTableHeader(k)
    /\ ~Scanned[lines[k]].separator

\* line k is a Table-1 row the grammar accepts; Table-2 likewise
AcceptedT1(k) ==
    Scanned[lines[k]].table1_data.ok /\ IsDataLine(k) /\ TableAt(k) = "table1"

AcceptedT2(k) ==
    Scanned[lines[k]].table2_data.ok /\ IsDataLine(k) /\ TableAt(k) = "table2"

T1Rows(s) == {k \in 1..Len(lines) : AcceptedT1(k) /\ SectionAt(k) = s}

T2Rows(s) == {k \in 1..Len(lines) : AcceptedT2(k) /\ SectionAt(k) = s}

\* the device id of a data line: its first word, and the integer it denotes
IdText(k) == Words[lines[k]][1]

IdNumber(k) == DecimalValue(IdText(k))

\* the Table-1 fields of row k, read off its words: an absent timestamp is the
\* word "-", a present one is a date word followed by a time word
RunStateOf(k) == Words[lines[k]][2]

UpAbsent(k) == Words[lines[k]][3] = "-"

DownAt(k) == IF UpAbsent(k) THEN 4 ELSE 5

DownAbsent(k) == Words[lines[k]][DownAt(k)] = "-"

UpDateOf(k) == Words[lines[k]][3]

UpTimeOf(k) == IF UpAbsent(k) THEN "-" ELSE Words[lines[k]][4]

DownDateOf(k) == Words[lines[k]][DownAt(k)]

DownTimeOf(k) == IF DownAbsent(k) THEN "-" ELSE Words[lines[k]][DownAt(k) + 1]

CauseOf(k) == Words[lines[k]][Len(Words[lines[k]])]

\* record r carries the Table-1 fields of row k
CarriesT1(r, k) ==
    /\ r["ONT ID"] = IdNumber(k)
    /\ r["Run State"] = RunStateOf(k)
    /\ r["Last UpDate"] = UpDateOf(k)
    /\ r["Last UpTime"] = UpTimeOf(k)
    /\ r["Last DownDate"] = DownDateOf(k)
    /\ r["Last DownTime"] = DownTimeOf(k)
    /\ r["Last DownCause"] = CauseOf(k)

\* record r carries the Table-2 fields of row k (the type before its mapping
\* is not compared)
CarriesT2(r, k) ==
    /\ r["SN"] = Words[lines[k]][2]
    /\ r["Distance (m)"] = Words[lines[k]][4]
    /\ r["Rx/Tx (dBm) power"] = Words[lines[k]][5]

AllNotAvailable(r) ==
    /\ r["SN"] = NA
    /\ r["Type"] = NA
    /\ r["Distance (m)"] = NA
    /\ r["Rx/Tx (dBm) power"] = NA
    /\ r["Description"] = NA

\* the records the flush of section s appended, as positions of all_ont_data
RecordsOf(s) == {i \in 1..Len(all_ont_data) : section_of[i] = s}

\* the last row of rows that has the id text of row k
LastWithText(rows, k) == Max({j \in rows : IdText(j) = IdText(k)})


Returned == pc = "done"

\* the first and the last accepted Table-1 row of each id text of section s
FirstRows(s) ==
    LET rows == T1Rows(s)
    IN  {k \in rows : \A j \in rows : IdText(j) = IdText(k) => k <= j}

LastRows(s) ==
    LET rows == T1Rows(s)
    IN  {k \in rows : \A j \in rows : IdText(j) = IdText(k) => j <= k}

Sections == 1..NumSections

----------------------------------------------------------------------------
(* The claims                                                               *)

\* C1: when parse returns, the records of every port section are in
\* one-to-one correspondence with the distinct device ids, compared as the
\* integer of the ONT ID field, of the section's accepted Table-1 rows: one
\* record per id, and no two records of a section with the same integer id.
C1_OneRecordPerDeviceId ==
    Returned =>
        \A s \in Sections :
            LET ids == {IdNumber(k) : k \in T1Rows(s)}
            IN  /\ {all_ont_data[i]["ONT ID"] : i \in RecordsOf(s)} = ids
                /\ Cardinality(RecordsOf(s)) = Cardinality(ids)

\* C2: the records of a section are decided by its Table-1 rows alone: every
\* record has the id of an accepted Table-1 row of its section, so an id with
\* Table-2 rows only yields no record, and unless parse raised a closed section
\* has as many records as its Table-1 rows have distinct ids, whatever Table-2
\* rows it has.
C2_OnlyTable1Emits ==
    \A s \in Sections :
        /\ \A i \in RecordsOf(s) :
               \E k \in T1Rows(s) : all_ont_data[i]["ONT ID"] = IdNumber(k)
        /\ pc # "raised" =>
               Cardinality(RecordsOf(s)) =
                   IF Closed(s) THEN Cardinality({IdText(k) : k \in T1Rows(s)}) ELSE 0

\* C2 witness: parse returned records for a section that also has an accepted
\* Table-2 row whose id no Table-1 row of the section has.
C2_Witness ==
    /\ Returned
    /\ \E s \in Sections : \E k \in T2Rows(s) :
           /\ RecordsOf(s) # {}
           /\ \A j \in T1Rows(s) : IdNumber(j) # IdNumber(k)

\* C3: for an accepted Table-1 row (the last of its id) of a closed section
\* that has no accepted Table-2 row of the same id, there is a record of the
\* section with N/A in the five Table-2 fields and with the run state, the
\* split timestamps and the down cause of that row.
C3_MissingTable2GivesNA ==
    pc # "raised" =>
        \A s \in Sections : Closed(s) =>
            \A k \in LastRows(s) :
                (\A j \in T2Rows(s) : IdText(j) # IdText(k)) =>
                    \E i \in RecordsOf(s) :
                        /\ CarriesT1(all_ont_data[i], k)
                        /\ AllNotAvailable(all_ont_data[i])

\* C3 witness: parse returned, and a section has Table-2 rows and a Table-1
\* row whose id is not among them.
C3_Witness ==
    /\ Returned
    /\ \E s \in Sections : \E k \in LastRows(s) :
           /\ T2Rows(s) # {}
           /\ \A j \in T2Rows(s) : IdText(j) # IdText(k)

\* C4: last occurrence wins per device id in both tables: every record carries
\* the Table-1 fields of the last accepted Table-1 row of its section with the
\* record's device id, and the Table-2 fields of the last accepted Table-2 row
\* of the section with that id (N/A when there is none).
C4_LastOccurrenceWins ==
    Returned =>
        \A s \in Sections : \A i \in RecordsOf(s) :
            LET r  == all_ont_data[i]
                t1 == {k \in T1Rows(s) : IdNumber(k) = r["ONT ID"]}
                t2 == {k \in T2Rows(s) : IdNumber(k) = r["ONT ID"]}
            IN  /\ t1 # {}
                /\ CarriesT1(r, Max(t1))
                /\ IF t2 = {} THEN AllNotAvailable(r) ELSE CarriesT2(r, Max(t2))

C6_NeverRaises == pc # "raised"

\* C7: a port header always closes the open section: the entries of a closed
\* section are in the output exactly once (as many records as ids, each last
\* row carried by one of them), under the port of their own section's header,
\* an open section has no record yet, and right after a port header both
\* accumulators are empty, no table is selected and the port is the header's.
C7_PortHeaderClosesSection ==
    /\ \A i \in 1..Len(all_ont_data) :
           /\ section_of[i] \in Sections
           /\ all_ont_data[i]["PON Port"] =
                  Scanned[lines[HeaderOf(section_of[i])]].port_match
    /\ \A s \in Sections :
           IF Closed(s)
           THEN /\ Cardinality(RecordsOf(s)) = Cardinality(LastRows(s))
                /\ \A k \in LastRows(s) :
                       \E i \in RecordsOf(s) : CarriesT1(all_ont_data[i], k)
           ELSE pc = "loop" => RecordsOf(s) = {}
    /\ (pc # "done" /\ Len(lines) > 0 /\ IsPortHeader(Len(lines))) =>
           /\ port_data_table1 = << >>
           /\ port_data_table2 = << >>
           /\ parsing_state = None
           /\ current_port = Scanned[lines[Len(lines)]].port_match

\* C8: while no port header has been read, every line is ignored: no port, no
\* table state, nothing accumulated and nothing emitted, so the lines before
\* the first port header leave the locals as they started, and a report
\* without port header returns the empty list.
C8_IgnoredBeforeFirstPort ==
    NumSections = 0 =>
        /\ pc # "raised"
        /\ current_port = None
        /\ parsing_state = None
        /\ port_data_table1 = << >>
        /\ port_data_table2 = << >>
        /\ all_ont_data = << >>

\* C8 witness: parse returned from a report without port header that has a
\* Table-1 header line followed by a line of the Table-1 grammar.
C8_Witness ==
    /\ Returned
    /\ NumSections = 0
    /\ \E a, b \in 1..Len(lines) :
           /\ a < b
           /\ Scanned[lines[a]].table1_header
           /\ Scanned[lines[b]].table1_data.ok

\* a data line read as a Table-2 row that is made of exactly an id, a serial
\* number, a type, a distance and a power field
EmptyDescriptionRow(k) ==
    /\ IsDataLine(k)
    /\ TableAt(k) = "table2"
    /\ LET w == Words[lines[k]]
       IN  /\ Len(w) = 5
           /\ AllIn(w[1], Digits)
           /\ w[2] = "-" \/ (Len(w[2]) = 16 /\ AllIn(w[2], Digits \cup HexLetters))
           /\ w[4] = "-" \/ AllIn(w[4], Digits)
           /\ PowerField(w[5])

\* C9: a Table-2 row with an empty description is accepted: when it is the
\* last Table-2 line of its id in the section, the record of that id carries
\* its serial number, distance and power and an empty description.
C9_EmptyDescriptionAccepted ==
    Returned =>
        \A k \in 1..Len(lines) :
            (/\ EmptyDescriptionRow(k)
             /\ \A j \in T2Rows(SectionAt(k)) : j > k => IdText(j) # IdText(k)) =>
                \A i \in RecordsOf(SectionAt(k)) :
                    all_ont_data[i]["ONT ID"] = IdNumber(k) =>
                        /\ CarriesT2(all_ont_data[i], k)
                        /\ all_ont_data[i]["Description"] = ""

\* C10: the two timestamps of a Table-1 entry are split independently: for the
\* last row of each id of a closed section a record has, for each of the two
\* timestamps by itself, "-" and "-" when it is absent and its date and its
\* time when it is present.
C10_TimestampsSplitIndependently ==
    pc # "raised" =>
        \A s \in Sections : Closed(s) =>
            \A k \in LastRows(s) :
                \E i \in RecordsOf(s) :
                    LET r == all_ont_data[i]
                        w == Words[lines[k]]
                    IN  /\ r["ONT ID"] = IdNumber(k)
                        /\ r["Run State"] = w[2]
                        /\ IF UpAbsent(k)
                           THEN r["Last UpDate"] = "-" /\ r["Last UpTime"] = "-"
                           ELSE r["Last UpDate"] = w[3] /\ r["Last UpTime"] = w[4]
                        /\ IF DownAbsent(k)
                           THEN r["Last DownDate"] = "-" /\ r["Last DownTime"] = "-"
                           ELSE /\ r["Last DownDate"] = w[DownAt(k)]
                                /\ r["Last DownTime"] = w[DownAt(k) + 1]

\* C10 witness: parse returned a record with an up time and no down time and
\* a record with a down time and no up time.
C10_Witness ==
    /\ Returned
    /\ \E i, j \in 1..Len(all_ont_data) :
           /\ all_ont_data[i]["Last UpDate"] # "-"
           /\ all_ont_data[i]["Last DownDate"] = "-"
           /\ all_ont_data[j]["Last UpDate"] = "-"
           /\ all_ont_data[j]["Last DownDate"] # "-"

\* the last accepted Table-2 row of each id text of section s
LastT2Rows(s) ==
    LET rows == T2Rows(s)
    IN  {k \in rows : \A j \in rows : IdText(j) = IdText(k) => j <= k}

\* the type token of the Table-2 row k
TypeOf(k) == Words[lines[k]][3]

\* the type stored for the token t is an exact-match remap of it
RemapOf(t, stored) ==
    /\ t = "1112" => stored = "GP1702-4G"
    /\ t = "1108" => stored = "GP1702-4G-M"
    /\ t \notin {"1112", "1108"} => stored = t

\* C11: the hardware-type remap is exact-match only: the entry that
\* port_data_table2 holds for an accepted Table-2 row (the last of its id in
\* the open section) has the type GP1702-4G for the token 1112, GP1702-4G-M
\* for the token 1108 and the token itself for every other token, and the
\* record joined with such a row at the flush has that type.
C11_TypeRemapExact ==
    pc # "raised" =>
        /\ \A k \in LastT2Rows(NumSections) :
               /\ DictHas(port_data_table2, IdText(k))
               /\ RemapOf(TypeOf(k), DictGet(port_data_table2, IdText(k))["Type"])
        /\ \A s \in Sections : Closed(s) =>
               \A k \in LastRows(s) : \A j \in LastT2Rows(s) :
                   IdText(j) = IdText(k) =>
                       \E i \in RecordsOf(s) :
                           /\ CarriesT1(all_ont_data[i], k)
                           /\ RemapOf(TypeOf(j), all_ont_data[i]["Type"])

\* C11 witness: the open section has an accepted Table-2 row of type 5806G and
\* one whose type only contains 1112.
C11_Witness ==
    /\ pc = "loop"
    /\ \E j, k \in LastT2Rows(NumSections) :
           /\ TypeOf(j) = "5806G"
           /\ TypeOf(k) # "1112"
           /\ \E n \in 1..(Len(TypeOf(k)) - 3) : SubSeq(TypeOf(k), n, n + 3) = "1112"

\* The name of the call, described from its characters alone: the positions
\* of its hyphens, and the parts between them.
Hyphens == {i \in 1..Len(olt_name) : SubSeq(olt_name, i, i) = "-"}

NumSegments == Cardinality(Hyphens) + 1

LastSegment == SubSeq(olt_name, Max(Hyphens \cup {0}) + 1, Len(olt_name))

\* the part before the last one (of a name with two parts or more)
SecondToLastSegment ==
    LET h == Max(Hyphens)
    IN  SubSeq(olt_name, Max((Hyphens \ {h}) \cup {0}) + 1, h - 1)

\* the last part ends with NOC1 in any mix of cases
EndsWithNoc1 ==
    LET n == Len(LastSegment)
    IN  /\ n >= 4
        /\ SubSeq(LastSegment, n - 3, n - 3) \in {"N", "n"}
        /\ SubSeq(LastSegment, n - 2, n - 2) \in {"O", "o"}
        /\ SubSeq(LastSegment, n - 1, n - 1) \in {"C", "c"}
        /\ SubSeq(LastSegment, n, n) = "1"

\* the label of the names that no branch names a PoP for
UnknownPoP == "Unknown PoP"

\* C12: for a name of three parts or more every record has the PoP of the
\* first branch that applies: the last part when it ends with NOC1 in any
\* case, else the last part when it has five characters or more, else the
\* last two parts joined by a hyphen when there are four parts or more, else
\* the default label; and all the records of a call have the same PoP.
C12_SiteGroupBranchOrder ==
    /\ NumSegments >= 3 =>
           \A i \in 1..Len(all_ont_data) :
               all_ont_data[i]["PoP"] =
                   IF EndsWithNoc1 THEN LastSegment
                   ELSE IF Len(LastSegment) >= 5 THEN LastSegment
                   ELSE IF NumSegments >= 4
                        THEN SecondToLastSegment \o "-" \o LastSegment
                   ELSE UnknownPoP
    /\ \A i, j \in 1..Len(all_ont_data) :
           all_ont_data[i]["PoP"] = all_ont_data[j]["PoP"]

\* C12 witness: parse returned two records or more under a name of four parts
\* whose last part is a short one that ends with NOC1 in lower case.
C12_Witness ==
    /\ Returned
    /\ Len(all_ont_data) >= 2
    /\ NumSegments >= 4
    /\ Len(LastSegment) < 5
    /\ EndsWithNoc1
    /\ LastSegment # Upper(LastSegment)

\* the examples of the site-group derivation
PopExamples ==
    \A i \in 1..Len(all_ont_data) :
        /\ olt_name = "HWGPON2U-01-PNHHQ" => all_ont_data[i]["PoP"] = "PNHHQ"
        /\ olt_name = "SITE-A-SHVNOC1" => all_ont_data[i]["PoP"] = "SHVNOC1"

\* C13 as stated: for a name of fewer than three parts every record has the
\* PoP "unknown", so the name ab gives unknown; HWGPON2U-01-PNHHQ gives PNHHQ
\* and SITE-A-SHVNOC1 gives SHVNOC1.
C13_FewerThanThreeIsUnknown ==
    /\ PopExamples
    /\ NumSegments < 3 =>
           \A i \in 1..Len(all_ont_data) : all_ont_data[i]["PoP"] = "unknown"

\* C13 amended: for a name of fewer than three parts every record has the
\* PoP "Unknown PoP", so the name ab gives Unknown PoP; HWGPON2U-01-PNHHQ
\* gives PNHHQ and SITE-A-SHVNOC1 gives SHVNOC1.
C13_FewerThanThreeIsUnknownPoP ==
    /\ PopExamples
    /\ NumSegments < 3 =>
           \A i \in 1..Len(all_ont_data) : all_ont_data[i]["PoP"] = UnknownPoP

\* C13 witness: parse returned a record under a name of two parts whose last
\* part has five characters.
C13_Witness ==
    /\ Returned
    /\ all_ont_data # << >>
    /\ NumSegments = 2
    /\ Len(LastSegment) >= 5

\* C14: calls do not interfere: however the passes of two calls are
\* interleaved, a call that returns returns the list that the call returns
\* when it runs alone on its report and its name, and a call raises exactly
\* when it raises alone.
C14_CallsDoNotInterfere ==
    \A c \in Callers :
        LET me    == calls.of[c]
            alone == ParseOltOutput(me.text, me.olt_name)
        IN  me.pc = "done" =>
                /\ me.locals.raised = alone.raised
                /\ ~alone.raised => me.locals.all_ont_data = alone.all_ont_data

\* C14 witness: two calls on different reports returned records, and their
\* passes alternated line by line.
C14_Witness ==
    /\ \A c \in Callers :
           /\ calls.of[c].pc = "done"
           /\ ~calls.of[c].locals.raised
           /\ calls.of[c].locals.all_ont_data # << >>
    /\ calls.of[1].text # calls.of[2].text
    /\ Len(calls.order) >= 6
    /\ \A n \in 1..5 : calls.order[n] # calls.order[n + 1]

\* line k is a skipped line: an empty line, or a line of a section that is no
\* port header and no table header and that is a separator, or stands before
\* the first table header of its section, or does not match the grammar of
\* the table it stands in
SkippedAt(k) ==
    \/ Scanned[lines[k]].line = ""
    \/ /\ InSection(k)
       /\ ~IsTableHeader(k)
       /\ \/ Scanned[lines[k]].separator
          \/ TableAt(k) = None
          \/ TableAt(k) = "table1" /\ ~Scanned[lines[k]].table1_data.ok
          \/ TableAt(k) = "table2" /\ ~Scanned[lines[k]].table2_data.ok

SkippedLast == Len(lines) > 0 /\ SkippedAt(Len(lines))

\* the lines without line k
WithoutLine(k) == SubSeq(lines, 1, k - 1) \o SubSeq(lines, k + 1, Len(lines))

\* C15: skipped lines have no effect: the pass of the loop that reads a
\* skipped line leaves the port, the table state, both accumulators and the
\* output unchanged and does not raise, and when parse returns, it returns
\* what it returns on the report without any one of its skipped lines.
C15_SkippedLinesHaveNoEffect ==
    /\ [][(Len(lines') = Len(lines) + 1 /\ SkippedLast') =>
              /\ pc' = "loop"
              /\ UNCHANGED << current_port, parsing_state, port_data_table1,
                              port_data_table2, all_ont_data >>]_vars
    /\ [](Returned =>
              \A k \in 1..Len(lines) :
                  SkippedAt(k) =>
                      LET without == ParseOltOutput(WithoutLine(k), olt_name)
                      IN  ~without.raised /\ without.all_ont_data = all_ont_data)

\* C15 witness: parse returned records from a report that has an empty line,
\* a separator, and a data line before the first table header of its section.
C15_Witness ==
    /\ Returned
    /\ all_ont_data # << >>
    /\ \E a, b, c \in 1..Len(lines) :
           /\ Scanned[lines[a]].line = ""
           /\ InSection(b) /\ Scanned[lines[b]].separator
           /\ InSection(c) /\ ~IsTableHeader(c) /\ TableAt(c) = None
           /\ Scanned[lines[c]].table1_data.ok

\* the lines of the open section that follow its header
AfterLastHeader ==
    {k \in 1..Len(lines) : \A j \in k..Len(lines) : ~IsPortHeader(j)}

\* no table header has been read since the last port header
AwaitingTable ==
    /\ NumSections >= 1
    /\ \A k \in AfterLastHeader : ~IsTableHeader(k)

\* C16: a port header leaves no table selected, whatever table the section
\* before it ended in: while no table header has been read since the last
\* port header, no table is selected and both accumulators are empty, whatever
\* lines followed the header, and every record carries a Table-1 row that
\* stands after a Table-1 header of its own section.
C16_PortHeaderAwaitsTable ==
    /\ (pc = "loop" /\ AwaitingTable) =>
           /\ parsing_state = None
           /\ port_data_table1 = << >>
           /\ port_data_table2 = << >>
    /\ \A s \in Sections : \A i \in RecordsOf(s) :
           \E k \in T1Rows(s) : CarriesT1(all_ont_data[i], k)

\* C16 witness: a section that ended in Table 1 gave records, and the lines
\* after the next port header, with no table header among them, include a
\* line of the Table-1 grammar.
C16_Witness ==
    /\ pc = "loop"
    /\ AwaitingTable
    /\ all_ont_data # << >>
    /\ \E k \in AfterLastHeader : Scanned[lines[k]].table1_data.ok

\* what the last line read holds
LastLine == Scanned[lines[Len(lines)]]

\* C17: a line is handled by the first rule that applies.  A line that holds
\* the port-header pattern is handled as a port header in every state, also
\* when it starts with dashes or holds a table header or matches a data
\* grammar: the open section is flushed and the new one starts with its port,
\* no table and empty accumulators.  Before the first port header any other
\* line changes nothing.  In a section, a line that holds a table-header
\* pattern (Table 1 first) selects that table and changes nothing else, so it
\* is never stored as a row, and a separator changes nothing.
C17_FirstRuleThatApplies ==
    [][(Len(lines') = Len(lines) + 1 /\ LastLine'.line # "" /\ pc' = "loop") =>
          IF LastLine'.port_match # None
          THEN /\ current_port' = LastLine'.port_match
               /\ parsing_state' = None
               /\ port_data_table1' = << >>
               /\ port_data_table2' = << >>
               /\ Len(all_ont_data') = Len(all_ont_data) + Len(port_data_table1)
          ELSE IF current_port = None
          THEN UNCHANGED << current_port, parsing_state, port_data_table1,
                            port_data_table2, all_ont_data >>
          ELSE IF LastLine'.table1_header \/ LastLine'.table2_header
          THEN /\ parsing_state' = IF LastLine'.table1_header THEN "table1" ELSE "table2"
               /\ UNCHANGED << current_port, port_data_table1, port_data_table2,
                               all_ont_data >>
          ELSE IF LastLine'.separator
          THEN UNCHANGED << current_port, parsing_state, port_data_table1,
                            port_data_table2, all_ont_data >>
          ELSE UNCHANGED << current_port, parsing_state, all_ont_data >>]_vars

\* C17 witness: in Table 2, the line just read matches the Table-2 grammar
\* and holds the Table-1 header in its description.
C17_Witness ==
    /\ pc = "loop"
    /\ Len(lines) > 0
    /\ InSection(Len(lines))
    /\ TableAt(Len(lines)) = "table2"
    /\ LastLine.table1_header
    /\ LastLine.table2_data.ok

\* the keys of a dict, in its order
Keys(d) == [i \in 1..Len(d) |-> d[i].key]

\* the id texts of the rows, in the order in which they first appear
IdsInOrder(rows) ==
    LET first == Ascending({k \in rows : \A j \in rows : IdText(j) = IdText(k) => k <= j})
    IN  [n \in 1..Len(first) |-> IdText(first[n])]

\* C18: the accumulators live for the whole section: while a section is open,
\* port_data_table1 has the ids of all the accepted Table-1 rows since the
\* port header and port_data_table2 those of all the accepted Table-2 rows,
\* under whichever occurrence of a table header each row stands, with the
\* fields of the last row of each id; and the record of a Table-1 row of a
\* closed section has the fields of the section's last Table-2 row of its id,
\* wherever in the section the Table-2 rows stand.
C18_AccumulatorsLiveForSection ==
    /\ (pc = "loop" /\ NumSections >= 1) =>
           /\ Keys(port_data_table1) = IdsInOrder(T1Rows(NumSections))
           /\ Keys(port_data_table2) = IdsInOrder(T2Rows(NumSections))
           /\ \A k \in LastRows(NumSections) :
                  DictGet(port_data_table1, IdText(k))["Run State"] = RunStateOf(k)
           /\ \A k \in LastT2Rows(NumSections) :
                  /\ DictGet(port_data_table2, IdText(k))["SN"] = Words[lines[k]][2]
                  /\ DictGet(port_data_table2, IdText(k))["Distance"] = Words[lines[k]][4]
                  /\ DictGet(port_data_table2, IdText(k))["Power"] = Words[lines[k]][5]
    /\ pc # "raised" =>
           \A s \in Sections : Closed(s) =>
               \A k \in LastRows(s) : \A j \in LastT2Rows(s) :
                   IdText(j) = IdText(k) =>
                       \E i \in RecordsOf(s) :
                           /\ CarriesT1(all_ont_data[i], k)
                           /\ CarriesT2(all_ont_data[i], j)

\* C18 witness: parse returned a record joined from a Table-2 row that stands
\* before the Table-1 header of its section, and the section has two
\* occurrences of a table header.
C18_Witness ==
    /\ Returned
    /\ \E s \in Sections : \E j \in T2Rows(s) : \E k \in T1Rows(s) :
           /\ j < k
           /\ IdText(j) = IdText(k)
           /\ \E i \in RecordsOf(s) : CarriesT2(all_ont_data[i], j)
           /\ \E a, b \in 1..Len(lines) :
                  /\ a < b
                  /\ SectionAt(a) = s /\ SectionAt(b) = s
                  /\ Scanned[lines[a]].table2_header
                  /\ Scanned[lines[b]].table2_header

\* C19: no data crosses a section boundary: every record has the name of the
\* call and the port of the header of its own section, the Table-1 fields of
\* a row of that section and the Table-2 fields of that section's last
\* Table-2 row of the same id (N/A when the section has none, whatever the
\* other sections have), and a closed section has one record for each of its
\* own ids, also when another section has the same port.
C19_NoDataCrossesSections ==
    /\ \A i \in 1..Len(all_ont_data) :
           LET r == all_ont_data[i]
               s == section_of[i]
           IN  /\ s \in Sections
               /\ r["OLT Name"] = olt_name
               /\ r["PON Port"] = Scanned[lines[HeaderOf(s)]].port_match
               /\ \E k \in LastRows(s) :
                      /\ CarriesT1(r, k)
                      /\ LET t2 == {j \in LastT2Rows(s) : IdText(j) = IdText(k)}
                         IN  IF t2 = {} THEN AllNotAvailable(r)
                             ELSE \A j \in t2 : CarriesT2(r, j)
    /\ pc # "raised" =>
           \A s \in Sections :
               Cardinality(RecordsOf(s)) =
                   IF Closed(s) THEN Cardinality(LastRows(s)) ELSE 0

\* C19 witness: parse returned from a report of two sections with the same
\* port, where the first has an accepted Table-2 row of an id and the second
\* has a Table-1 row of that id and no Table-2 row.
C19_Witness ==
    /\ Returned
    /\ \E s, t \in Sections :
           /\ s < t
           /\ Scanned[lines[HeaderOf(s)]].port_match = Scanned[lines[HeaderOf(t)]].port_match
           /\ T2Rows(t) = {}
           /\ \E j \in T2Rows(s) : \E k \in T1Rows(t) : IdText(j) = IdText(k)

\* the lines before line k, and the lines from line k on
Before(k) == SubSeq(lines, 1, k - 1)

From(k) == SubSeq(lines, k, Len(lines))

\* C20: parsing is compositional at a port header: when parse returns on a
\* report, then for every port header of the report the returned list is the
\* list parse returns on the lines before the header followed by the list it
\* returns on the lines from the header on, under the same name; and parse
\* returns the same list on the report with one more port header at its end.
C20_ComposesAtPortHeaders ==
    Returned =>
        /\ \A k \in 1..Len(lines) :
               IsPortHeader(k) =>
                   LET a == ParseOltOutput(Before(k), olt_name)
                       b == ParseOltOutput(From(k), olt_name)
                   IN  /\ ~a.raised /\ ~b.raised
                       /\ all_ont_data = a.all_ont_data \o b.all_ont_data
        /\ \A h \in {PortLine0, PortLine1} :
               LET more == ParseOltOutput(Append(lines, h), olt_name)
               IN  ~more.raised /\ more.all_ont_data = all_ont_data

\* C20 witness: parse returned on a report with a port header that has
\* records on both sides: the lines before it give records, and so do the
\* lines from it on.
C20_Witness ==
    /\ Returned
    /\ \E k \in 2..Len(lines) :
           /\ IsPortHeader(k)
           /\ ParseOltOutput(Before(k), olt_name).all_ont_data # << >>
           /\ ParseOltOutput(From(k), olt_name).all_ont_data # << >>

====
